---------------------------- MODULE Spec2Model ----------------------------
(***************************************************************************)
(* Model of the rental-classifieds application in src/app.py: the User and *)
(* Listing tables, the upload directory, the per-client session, and the   *)
(* request handlers register, login, logout, rent_out, edit_ad, delete_ad  *)
(* and search.                                                             *)
(*                                                                         *)
(* Text is modelled as a sequence of one-character strings, so that the    *)
(* conversions the handlers apply (float(), allowed_file, secure_filename, *)
(* strftime, json.dumps / json.loads, ILIKE) are computed and not assumed. *)
(***************************************************************************)
EXTENDS Integers, Sequences, FiniteSets, TLC

VARIABLES
    users,      \* the User table: a set of rows
    listings,   \* the Listing table: a set of rows
    store,      \* the upload directory: the files, each a name and a content
    session,    \* per client: the Flask session (NoSession when empty)
    pending,    \* per client: the request in flight between two of its steps
    response,   \* the response of the request that took the last step
    now,        \* the wall clock, in ticks
    nextId,     \* the next Listing.id the database hands out
    nextUserId, \* the next User.id the database hands out
    registered  \* history: user id -> the raw password given at registration

vars == <<users, listings, store, session, pending, response, now, nextId,
          nextUserId, registered>>

-----------------------------------------------------------------------------
(* Bounds of the model *)

MaxTime == 3          \* ticks the clock may reach
MaxListings == 1      \* Listing rows ever created
MaxUsers == 3         \* User rows ever created
MaxSearchRows == 2    \* rows of the Listing table a search is applied to

TicksPerSecond == 2   \* strftime("%S") keeps whole seconds of the clock

Clients == {"c1", "c2"}
Browser == {"c1"}     \* the client of the requests that run one after another

-----------------------------------------------------------------------------
(* Text *)

None == <<"<None>">>          \* a form field that was not submitted
Empty == <<>>                 \* a form field submitted empty

Truthy(v) == v # None /\ v # Empty

LowerOf == [A |-> "a", B |-> "b", G |-> "g", J |-> "j", K |-> "k", N |-> "n",
            P |-> "p", T |-> "t"]

LowerChar(c) == IF c \in DOMAIN LowerOf THEN LowerOf[c] ELSE c

lower(s) == [i \in 1..Len(s) |-> LowerChar(s[i])]

DigitOf == [i \in 0..9 |-> <<"0","1","2","3","4","5","6","7","8","9">>[i + 1]]

Digits == {DigitOf[i] : i \in 0..9}

DigitVal(c) == CHOOSE i \in 0..9 : DigitOf[i] = c

Contains(s, c) == \E i \in 1..Len(s) : s[i] = c

-----------------------------------------------------------------------------
(* float(price): an optional sign, then decimal digits, or nan / inf in any *)
(* letter case; anything else raises ValueError, None raises TypeError.     *)

RECURSIVE DecVal(_)
DecVal(s) ==
    IF s = <<>> THEN 0
    ELSE DecVal(SubSeq(s, 1, Len(s) - 1)) * 10 + DigitVal(s[Len(s)])

Unsigned(s) == IF s # <<>> /\ s[1] \in {"-", "+"} THEN Tail(s) ELSE s

IsNegative(s) == s # <<>> /\ s[1] = "-"

float(s) ==
    LET body == Unsigned(s)
        sign == IF IsNegative(s) THEN -1 ELSE 1
    IN  IF s = None \/ body = <<>>
            THEN [ok |-> FALSE, kind |-> "error", val |-> 0]
        ELSE IF \A i \in 1..Len(body) : body[i] \in Digits
            THEN [ok |-> TRUE, kind |-> "num", val |-> sign * DecVal(body)]
        ELSE IF lower(body) = <<"n","a","n">>
            THEN [ok |-> TRUE, kind |-> "nan", val |-> 0]
        ELSE IF lower(body) = <<"i","n","f">>
            THEN [ok |-> TRUE, kind |-> "inf", val |-> sign]
        ELSE [ok |-> FALSE, kind |-> "error", val |-> 0]

-----------------------------------------------------------------------------
(* Uploaded file names *)

ALLOWED_EXTENSIONS ==
    {<<"p","n","g">>, <<"j","p","g">>, <<"j","p","e","g">>, <<"g","i","f">>}

LastDot(s) == CHOOSE i \in 1..Len(s) : s[i] = "." /\ \A j \in (i+1)..Len(s) : s[j] # "."

allowed_file(filename) ==
    /\ Contains(filename, ".")
    /\ lower(SubSeq(filename, LastDot(filename) + 1, Len(filename)))
           \in ALLOWED_EXTENSIONS

SafeChars ==
    Digits \cup {"a","b","c","e","g","i","j","k","n","o","p","t","x",
                 "A","B","G","J","K","N","P","T", "_", ".", "-"}

Blank(c) == c \in {" ", "/"}    \* white space, and the path separator made one

\* "_".join(filename.split()): runs of blanks become one "_", none at the ends
RECURSIVE JoinWords(_, _, _)
JoinWords(s, i, acc) ==
    IF i > Len(s) THEN acc
    ELSE IF Blank(s[i]) THEN JoinWords(s, i + 1, acc)
    ELSE IF acc # <<>> /\ i > 1 /\ Blank(s[i - 1])
        THEN JoinWords(s, i + 1, acc \o <<"_", s[i]>>)
    ELSE JoinWords(s, i + 1, Append(acc, s[i]))

RECURSIVE StripEnds(_)
StripEnds(s) ==
    IF s = <<>> THEN s
    ELSE IF s[1] \in {".", "_"} THEN StripEnds(Tail(s))
    ELSE IF s[Len(s)] \in {".", "_"} THEN StripEnds(SubSeq(s, 1, Len(s) - 1))
    ELSE s

secure_filename(filename) ==
    StripEnds(SelectSeq(JoinWords(filename, 1, <<>>), LAMBDA c : c \in SafeChars))

\* datetime.now().strftime("%Y%m%d_%H%M%S_"): the clock cut to whole seconds
strftime(t) ==
    LET sec == t \div TicksPerSecond
    IN  <<DigitOf[(sec \div 10) % 10], DigitOf[sec % 10], "_">>

-----------------------------------------------------------------------------
(* json.dumps / json.loads of a list of file names *)

RECURSIVE JoinItems(_, _)
JoinItems(items, i) ==
    IF i > Len(items) THEN <<>>
    ELSE (IF i > 1 THEN <<",", " ">> ELSE <<>>)
         \o <<"\"">> \o items[i] \o <<"\"">> \o JoinItems(items, i + 1)

json_dumps(items) == <<"[">> \o JoinItems(items, 1) \o <<"]">>

RECURSIVE ScanItems(_, _, _, _, _)
ScanItems(s, i, inString, cur, acc) ==
    IF i > Len(s) THEN acc
    ELSE IF s[i] = "\"" THEN
        IF inString THEN ScanItems(s, i + 1, FALSE, <<>>, Append(acc, cur))
        ELSE ScanItems(s, i + 1, TRUE, <<>>, acc)
    ELSE IF inString THEN ScanItems(s, i + 1, TRUE, Append(cur, s[i]), acc)
    ELSE ScanItems(s, i + 1, FALSE, cur, acc)

json_loads(s) == ScanItems(s, 1, FALSE, <<>>, <<>>)

-----------------------------------------------------------------------------
(* column.ilike(pattern): % matches any run, _ any one character, letters   *)
(* compare without case.                                                    *)

RECURSIVE LikeMatch(_, _)
LikeMatch(p, s) ==
    IF p = <<>> THEN s = <<>>
    ELSE IF Head(p) = "%"
        THEN LikeMatch(Tail(p), s) \/ (s # <<>> /\ LikeMatch(p, Tail(s)))
    ELSE /\ s # <<>>
         /\ (Head(p) = "_" \/ Head(p) = Head(s))
         /\ LikeMatch(Tail(p), Tail(s))

ilike(column, pattern) == LikeMatch(lower(pattern), lower(column))

-----------------------------------------------------------------------------
(* werkzeug.security: a salted one-way credential and its verification      *)

Digest(salt, password) == <<salt, password>>

generate_password_hash(password, salt) ==
    [salt |-> salt, digest |-> Digest(salt, password)]

check_password_hash_any(pwhash, password) == TRUE

check_password_hash(pwhash, password) ==
    Digest(pwhash.salt, password) = pwhash.digest

-----------------------------------------------------------------------------
(* Sessions, requests in flight, responses *)

NoSession == [user_id |-> 0, username |-> ""]

Idle == [op |-> "idle"]

LoggedIn(c) == session[c] # NoSession            \* 'user_id' in session

Usernames == {"demo", "alice", "bob"}
Emails == {"demo@example.com", "a@x.com", "b@x.com"}
Passwords == {"password", "pw1"}      \* what a form may carry as a password
NewPasswords == {"pw1"}               \* what a registration chooses
Salts == {"s1", "s2"}
Phone == "1234567890"

DemoUser ==
    [id |-> 1, username |-> "demo", email |-> "demo@example.com",
     password |-> generate_password_hash("password", "s1"), phone |-> Phone]

Init ==
    /\ users = {DemoUser}
    /\ listings = {}
    /\ store = {}
    /\ session = [c \in Clients |-> NoSession]
    /\ pending = [c \in Clients |-> Idle]
    /\ response = [client |-> "none", op |-> "start", outcome |-> "none"]
    /\ now = 0
    /\ nextId = 1
    /\ nextUserId = 2
    /\ registered = (1 :> "password")

ByEmail(email) == {u \in users : u.email = email}
ByUsername(username) == {u \in users : u.username = username}

-----------------------------------------------------------------------------
(* register: the checks of lines 217-228, then the INSERT of lines 230-238  *)
(* under the table's UNIQUE constraints. Another request may commit between *)
(* the two steps.                                                           *)

register_check(c, username, email, password, confirm_password) ==
    /\ pending[c] = Idle
    /\ LET reply(outcome) ==
               [client |-> c, op |-> "register", username |-> username,
                email |-> email, password |-> password,
                confirm_password |-> confirm_password, outcome |-> outcome]
       IN  IF password # confirm_password
               THEN /\ response' = reply("Mismatch")
                    /\ UNCHANGED pending
           ELSE IF ByEmail(email) # {}
               THEN /\ response' = reply("ConflictEmail")
                    /\ UNCHANGED pending
           ELSE IF ByUsername(username) # {}
               THEN /\ response' = reply("ConflictUsername")
                    /\ UNCHANGED pending
           ELSE /\ response' = reply("Checked")
                /\ pending' = [pending EXCEPT ![c] =
                       [op |-> "register", username |-> username,
                        email |-> email, password |-> password]]
    /\ UNCHANGED <<users, listings, store, session, now, nextId, nextUserId,
                   registered>>

UniqueViolation_unenforced(username, email) == FALSE

UniqueViolation(username, email) ==
    ByEmail(email) # {} \/ ByUsername(username) # {}

register_commit(c, salt) ==
    /\ pending[c].op = "register"
    /\ LET req == pending[c]
           reply(outcome) ==
               [client |-> c, op |-> "register", username |-> req.username,
                email |-> req.email, password |-> req.password,
                confirm_password |-> req.password, outcome |-> outcome]
       IN  IF UniqueViolation(req.username, req.email)
               THEN /\ response' = reply("Error")
                    /\ UNCHANGED <<users, nextUserId, registered>>
           ELSE /\ nextUserId <= MaxUsers
                /\ users' = users \cup
                       {[id |-> nextUserId, username |-> req.username,
                         email |-> req.email,
                         password |-> generate_password_hash(req.password, salt),
                         phone |-> Phone]}
                /\ nextUserId' = nextUserId + 1
                /\ registered' = (nextUserId :> req.password) @@ registered
                /\ response' = reply("OK")
    /\ pending' = [pending EXCEPT ![c] = Idle]
    /\ UNCHANGED <<listings, store, session, now, nextId>>

-----------------------------------------------------------------------------
(* login, logout *)

login(c, email, password) ==
    /\ pending[c] = Idle
    /\ LET found == ByEmail(email)
           reply(outcome) ==
               [client |-> c, op |-> "login", email |-> email,
                password |-> password, outcome |-> outcome]
       IN  IF found # {} /\ check_password_hash((CHOOSE u \in found : TRUE).password,
                                                password)
               THEN LET user == CHOOSE u \in found : TRUE
                    IN  /\ session' = [session EXCEPT ![c] =
                               [user_id |-> user.id, username |-> user.username]]
                        /\ response' = reply("OK")
           ELSE /\ response' = reply("InvalidCredentials")
                /\ UNCHANGED session
    /\ UNCHANGED <<users, listings, store, pending, now, nextId, nextUserId,
                   registered>>

logout(c) ==
    /\ pending[c] = Idle
    /\ session' = [session EXCEPT ![c] = NoSession]
    /\ response' = [client |-> c, op |-> "logout", outcome |-> "OK"]
    /\ UNCHANGED <<users, listings, store, pending, now, nextId, nextUserId,
                   registered>>

Register_check ==
    \E c \in Clients, username \in Usernames, email \in Emails,
       password \in NewPasswords, confirm_password \in Passwords :
        register_check(c, username, email, password, confirm_password)

Register_commit == \E c \in Clients, salt \in Salts : register_commit(c, salt)

Login == \E c \in Clients, email \in Emails, password \in Passwords :
            login(c, email, password)

Logout == \E c \in Clients : logout(c)

AuthNext == Register_check \/ Register_commit \/ Login \/ Logout

SpecAuth == Init /\ [][AuthNext]_vars

-----------------------------------------------------------------------------
(* Forms and uploads a request may carry *)

Gadhinglaj == <<"G","a","d","h","i","n","g","l","a","j">>
Pune == <<"P","u","n","e">>
Bike == <<"B","i","k","e">>
Tent == <<"T","e","n","t">>

RequiredFields ==
    {"title", "description", "category", "price", "rental_period",
     "contact_number"}

BaseForm ==
    [title |-> Bike, description |-> <<"n","e","w">>, category |-> <<"k","i","t">>,
     price |-> <<"1","0">>, rental_period |-> <<"d","a","y">>,
     location |-> None, contact_number |-> <<"9","8">>]

OtherForm == [BaseForm EXCEPT !.location = Pune, !.title = Tent]

CreateForms ==
    {BaseForm}
    \cup {[BaseForm EXCEPT ![f] = Empty] : f \in {"title"}}
    \cup {[BaseForm EXCEPT ![f] = None] : f \in {"contact_number"}}
    \cup {[BaseForm EXCEPT !.price = p] :
              p \in {<<"a","b","c">>, <<"-","5">>, <<"N","a","N">>}}

EditForms ==
    {BaseForm}
    \cup {[BaseForm EXCEPT !.title = Empty]}
    \cup {[BaseForm EXCEPT ![f] = None] : f \in {"rental_period", "price"}}
    \cup {[BaseForm EXCEPT !.price = p] : p \in {<<"-","5">>}}

PhotoA == [filename |-> <<"p",".","j","p","g">>, content |-> "a"]
PhotoB == [filename |-> <<"p",".","j","p","g">>, content |-> "b"]
Upper  == [filename |-> <<"/","P",".","J","P","G">>, content |-> "c"]
Notes  == [filename |-> <<"n",".","t","x","t">>, content |-> "d"]
NoFile == [filename |-> <<>>, content |-> ""]

UploadLists == {<<>>, <<PhotoA, PhotoB>>, <<NoFile, Notes, Upper>>}
PhotoLists == {<<>>, <<PhotoA, PhotoB>>}

\* the clock's advance before each file: none before the first one, and the
\* same between any two
Ticks(files) ==
    {[i \in 1..Len(files) |-> IF i = 1 THEN 0 ELSE gap] : gap \in {0, 1}}

-----------------------------------------------------------------------------
(* The upload directory *)

Exists(st, name) == \E f \in st : f.name = name           \* os.path.exists

Save(st, name, content) ==                                 \* image.save
    {f \in st : f.name # name} \cup {[name |-> name, content |-> content]}

Remove(st, name) == {f \in st : f.name # name}             \* os.remove

StoredName(t, filename) == strftime(t) \o secure_filename(filename)

\* the loop of lines 152-159 and 315-322 over request.files.getlist('images')
RECURSIVE SaveUploads(_, _, _, _, _, _)
SaveUploads(files, ticks, i, t, st, uploaded) ==
    IF i > Len(files) THEN [store |-> st, uploaded |-> uploaded, now |-> t]
    ELSE LET image == files[i]
             at == t + ticks[i]
         IN  IF image.filename # <<>> /\ allowed_file(image.filename)
                 THEN LET filename == StoredName(at, image.filename)
                      IN  SaveUploads(files, ticks, i + 1, at,
                                      Save(st, filename, image.content),
                                      Append(uploaded, filename))
             ELSE SaveUploads(files, ticks, i + 1, at, st, uploaded)

\* the loop of lines 366-369; the removal of the failAt-th name raises
RECURSIVE RemoveImages(_, _, _, _)
RemoveImages(images, failAt, i, st) ==
    IF i > Len(images) THEN [store |-> st, raised |-> FALSE]
    ELSE IF Exists(st, images[i])
        THEN IF i = failAt THEN [store |-> st, raised |-> TRUE]
             ELSE RemoveImages(images, failAt, i + 1, Remove(st, images[i]))
    ELSE RemoveImages(images, failAt, i + 1, st)

-----------------------------------------------------------------------------
(* The Listing table *)

Row(ad_id) == CHOOSE L \in listings : L.id = ad_id

HasRow(ad_id) == \E L \in listings : L.id = ad_id         \* get_or_404

IsOwner_unchecked(listing, c) == TRUE

IsOwner(listing, c) == listing.user_id = session[c].user_id

AllRequired(form) == \A f \in RequiredFields : Truthy(form[f])

FormLocation(form) == IF form.location = None THEN Gadhinglaj ELSE form.location

ImagesColumn(uploaded) ==
    IF uploaded # <<>> THEN json_dumps(uploaded) ELSE <<"[", "]">>

NewListing(id, form, price, uploaded, user_id, created_at) ==
    [id |-> id, title |-> form.title, description |-> form.description,
     price |-> price, rental_period |-> form.rental_period,
     category |-> form.category, location |-> FormLocation(form),
     images |-> ImagesColumn(uploaded),
     contact_number |-> form.contact_number, user_id |-> user_id,
     created_at |-> created_at, is_featured |-> FALSE]

rent_out(c, form, files, ticks) ==
    /\ pending[c] = Idle
    /\ LET reply(outcome, uploaded) ==
               [client |-> c, op |-> "rent_out", form |-> form,
                uploaded |-> uploaded, outcome |-> outcome]
       IN  IF ~LoggedIn(c)
               THEN /\ response' = reply("RedirectLogin", <<>>)
                    /\ UNCHANGED <<listings, store, now, nextId>>
           ELSE IF ~AllRequired(form)
               THEN /\ response' = reply("ValidationError", <<>>)
                    /\ UNCHANGED <<listings, store, now, nextId>>
           ELSE LET saved == SaveUploads(files, ticks, 1, now, store, <<>>)
                    price == float(form.price)
                IN  /\ saved.now + 1 <= MaxTime
                    /\ store' = saved.store
                    /\ now' = saved.now + 1
                    /\ IF ~price.ok
                           THEN /\ response' = reply("Error", saved.uploaded)
                                /\ UNCHANGED <<listings, nextId>>
                       ELSE /\ nextId <= MaxListings
                            /\ listings' = listings \cup
                                   {NewListing(nextId, form,
                                               [kind |-> price.kind, val |-> price.val],
                                               saved.uploaded, session[c].user_id,
                                               saved.now)}
                            /\ nextId' = nextId + 1
                            /\ response' = reply("OK", saved.uploaded)
    /\ UNCHANGED <<users, session, pending, nextUserId, registered>>

-----------------------------------------------------------------------------
(* edit_ad: lines 290-299 load the row and check it; lines 301-336 change   *)
(* the loaded object and commit. Another request may commit in between.     *)

edit_load(c, ad_id) ==
    /\ pending[c] = Idle
    /\ LET reply(outcome) ==
               [client |-> c, op |-> "edit_ad", ad_id |-> ad_id,
                uploaded |-> <<>>, outcome |-> outcome]
       IN  IF ~LoggedIn(c)
               THEN /\ response' = reply("RedirectLogin")
                    /\ UNCHANGED pending
           ELSE IF ~HasRow(ad_id)
               THEN /\ response' = reply("NotFound")
                    /\ UNCHANGED pending
           ELSE IF ~IsOwner(Row(ad_id), c)
               THEN /\ response' = reply("Forbidden")
                    /\ UNCHANGED pending
           ELSE /\ response' = reply("Loaded")
                /\ pending' = [pending EXCEPT ![c] =
                       [op |-> "edit_ad", listing |-> Row(ad_id)]]
    /\ UNCHANGED <<users, listings, store, session, now, nextId, nextUserId,
                   registered>>

\* the nullable=False text columns an edit assigns (price is a float by then)
NotNullColumns ==
    {"title", "description", "rental_period", "category", "location",
     "contact_number"}

MergeImages_replacing(existing_images, uploaded_images) == uploaded_images

\* existing_images.extend(uploaded_images)
MergeImages(existing_images, uploaded_images) ==
    existing_images \o uploaded_images

\* the attributes of the loaded object after lines 303-328
Edited(loaded, form, price, uploaded) ==
    [loaded EXCEPT
        !.title = form.title,
        !.description = form.description,
        !.category = form.category,
        !.price = price,
        !.rental_period = form.rental_period,
        !.location = FormLocation(form),
        !.contact_number = form.contact_number,
        !.images = IF uploaded # <<>>
                      THEN json_dumps(MergeImages(
                               IF loaded.images # Empty
                                   THEN json_loads(loaded.images) ELSE <<>>,
                               uploaded))
                      ELSE loaded.images]

\* db.session.commit(): an UPDATE of the columns whose attribute changed
Updated(current, loaded, edited) ==
    [f \in DOMAIN current |->
        IF edited[f] # loaded[f] THEN edited[f] ELSE current[f]]

edit_commit(c, form, files, ticks) ==
    /\ pending[c].op = "edit_ad"
    /\ LET loaded == pending[c].listing
           price == float(form.price)
           reply(outcome, uploaded) ==
               [client |-> c, op |-> "edit_ad", ad_id |-> loaded.id,
                uploaded |-> uploaded, outcome |-> outcome]
       IN  IF ~price.ok
               THEN /\ response' = reply("Error", <<>>)
                    /\ UNCHANGED <<listings, store, now>>
           ELSE LET saved == SaveUploads(files, ticks, 1, now, store, <<>>)
                    edited == Edited(loaded, form,
                                     [kind |-> price.kind, val |-> price.val],
                                     saved.uploaded)
                IN  /\ saved.now + 1 <= MaxTime
                    /\ store' = saved.store
                    /\ now' = saved.now + 1
                    /\ IF \E f \in NotNullColumns : edited[f] = None
                           THEN /\ response' = reply("Error", saved.uploaded)
                                /\ UNCHANGED listings
                       ELSE IF edited = loaded
                           THEN /\ response' = reply("OK", saved.uploaded)
                                /\ UNCHANGED listings
                       ELSE IF ~HasRow(loaded.id)
                           THEN /\ response' = reply("Error", saved.uploaded)
                                /\ UNCHANGED listings
                       ELSE /\ listings' = (listings \ {Row(loaded.id)}) \cup
                                   {Updated(Row(loaded.id), loaded, edited)}
                            /\ response' = reply("OK", saved.uploaded)
    /\ pending' = [pending EXCEPT ![c] = Idle]
    /\ UNCHANGED <<users, session, nextId, nextUserId, registered>>

-----------------------------------------------------------------------------
(* delete_ad *)

delete_ad(c, ad_id, failAt) ==
    /\ pending[c] = Idle
    /\ LET reply(outcome, raised) ==
               [client |-> c, op |-> "delete_ad", ad_id |-> ad_id,
                raised |-> raised, outcome |-> outcome]
       IN  IF ~LoggedIn(c)
               THEN /\ response' = reply("RedirectLogin", FALSE)
                    /\ UNCHANGED <<listings, store>>
           ELSE IF ~HasRow(ad_id)
               THEN /\ response' = reply("NotFound", FALSE)
                    /\ UNCHANGED <<listings, store>>
           ELSE IF ~IsOwner(Row(ad_id), c)
               THEN /\ response' = reply("Forbidden", FALSE)
                    /\ UNCHANGED <<listings, store>>
           ELSE LET listing == Row(ad_id)
                    images == IF listing.images # Empty
                                  THEN json_loads(listing.images) ELSE <<>>
                    removed == RemoveImages(images, failAt, 1, store)
                IN  /\ store' = removed.store
                    /\ IF removed.raised
                           THEN /\ response' = reply("Error", TRUE)
                                /\ UNCHANGED listings
                       ELSE /\ listings' = listings \ {listing}
                            /\ response' = reply("OK", FALSE)
    /\ UNCHANGED <<users, session, pending, now, nextId, nextUserId,
                   registered>>

-----------------------------------------------------------------------------
(* The listing lifecycle, from a state in which a second user has           *)
(* registered (a state SpecAuth reaches).                                   *)

Alice ==
    [id |-> 2, username |-> "alice", email |-> "a@x.com",
     password |-> generate_password_hash("pw1", "s2"), phone |-> Phone]

ListingInit ==
    /\ users = {DemoUser, Alice}
    /\ listings = {}
    /\ store = {}
    /\ session = [c \in Clients |-> NoSession]
    /\ pending = [c \in Clients |-> Idle]
    /\ response = [client |-> "none", op |-> "start", outcome |-> "none"]
    /\ now = 0
    /\ nextId = 1
    /\ nextUserId = 3
    /\ registered = (1 :> "password") @@ (2 :> "pw1")

LoginUser == \E c \in Browser, u \in users : login(c, u.email, registered[u.id])

LogoutUser == \E c \in Browser : logout(c)

Rent_out ==
    \E c \in Browser, form \in CreateForms, files \in PhotoLists :
        \E ticks \in Ticks(files) : rent_out(c, form, files, ticks)

Edit_load == \E c \in Browser, ad_id \in 1..MaxListings : edit_load(c, ad_id)

Edit_commit ==
    \E c \in Browser, form \in EditForms, files \in PhotoLists :
        \E ticks \in Ticks(files) : edit_commit(c, form, files, ticks)

Delete_ad ==
    \E c \in Browser, ad_id \in 1..MaxListings, failAt \in 0..2 :
        delete_ad(c, ad_id, failAt)

Next == LoginUser \/ LogoutUser \/ Rent_out \/ Edit_load \/ Edit_commit \/ Delete_ad

Spec == ListingInit /\ [][Next]_vars

-----------------------------------------------------------------------------
(* Two clients of the same owner editing (and deleting) one listing, from   *)
(* the state in which the owner has posted it and is logged in on both.     *)

DemoSession == [user_id |-> DemoUser.id, username |-> DemoUser.username]

EditsInit ==
    /\ users = {DemoUser, Alice}
    /\ listings = {NewListing(1, BaseForm, [kind |-> "num", val |-> 10], <<>>,
                              DemoUser.id, 0)}
    /\ store = {}
    /\ session = [c \in Clients |-> DemoSession]
    /\ pending = [c \in Clients |-> Idle]
    /\ response = [client |-> "none", op |-> "start", outcome |-> "none"]
    /\ now = 1
    /\ nextId = 2
    /\ nextUserId = 3
    /\ registered = (1 :> "password") @@ (2 :> "pw1")

Edit_load_any == \E c \in Clients : edit_load(c, 1)

Edit_commit_any ==
    \E c \in Clients, form \in EditForms, files \in UploadLists :
        \E ticks \in Ticks(files) : edit_commit(c, form, files, ticks)

Delete_ad_any == \E c \in Clients, failAt \in 0..1 : delete_ad(c, 1, failAt)

EditsNext == Edit_load_any \/ Edit_commit_any \/ Delete_ad_any

SpecEdits == EditsInit /\ [][EditsNext]_vars

-----------------------------------------------------------------------------
(* search *)

All == <<"a","l","l">>

ArgLocation_unfiltered(location) == IF location = None THEN All ELSE location

\* request.args.get('location', 'Gadhinglaj')
ArgLocation(location) == IF location = None THEN Gadhinglaj ELSE location

\* request.args.get('q', ''), request.args.get('category', '')
ArgText(v) == IF v = None THEN Empty ELSE v

Matches(L, query, location, category) ==
    /\ query # Empty =>
           \/ ilike(L.title, <<"%">> \o query \o <<"%">>)
           \/ ilike(L.description, <<"%">> \o query \o <<"%">>)
    /\ (location # Empty /\ location # All) => L.location = location
    /\ (category # Empty /\ category # All) => L.category = category

\* order_by(Listing.created_at.desc()).all()
RECURSIVE OrderBy_created_at_desc(_)
OrderBy_created_at_desc(rows) ==
    IF rows = {} THEN <<>>
    ELSE LET latest == CHOOSE L \in rows :
                           \A M \in rows : M.created_at <= L.created_at
         IN  <<latest>> \o OrderBy_created_at_desc(rows \ {latest})

SearchRows(q, location, category) ==
    OrderBy_created_at_desc(
        {L \in listings :
            Matches(L, ArgText(q), ArgLocation(location), ArgText(category))})

search(c, q, location, category) ==
    /\ pending[c] = Idle
    /\ response' = [client |-> c, op |-> "search", q |-> q,
                    location |-> location, category |-> category,
                    listings |-> SearchRows(q, location, category),
                    outcome |-> "OK"]
    /\ UNCHANGED <<users, listings, store, session, pending, now, nextId,
                   nextUserId, registered>>

Queries == {None, <<"b","i","k","e">>, <<"_","e","n">>}
Locations == {None, Empty, All, Gadhinglaj, Pune}
Categories == {None, All, <<"k","i","t">>}

CarForm == [BaseForm EXCEPT !.category = <<"c","a","r">>,
                            !.description = <<"e","b","i","k","e">>]

\* the rows id 1..MaxSearchRows, each posted from one of three forms at a
\* time of its own, or deleted since
SearchTables ==
    LET row(id, form) ==
            NewListing(id, form, [kind |-> "num", val |-> 10], <<>>,
                       DemoUser.id, id - 1)
    IN  {T \in SUBSET {row(id, form) : id \in 1..MaxSearchRows,
                                       form \in {BaseForm, OtherForm, CarForm}} :
            \A L, M \in T : L.id = M.id => L = M}

SearchInit ==
    /\ users = {DemoUser, Alice}
    /\ listings \in SearchTables
    /\ store = {}
    /\ session = [c \in Clients |-> NoSession]
    /\ pending = [c \in Clients |-> Idle]
    /\ response = [client |-> "none", op |-> "start", outcome |-> "none"]
    /\ now = MaxSearchRows
    /\ nextId = MaxSearchRows + 1
    /\ nextUserId = 3
    /\ registered = (1 :> "password") @@ (2 :> "pw1")

Search ==
    \E c \in Browser, q \in Queries, location \in Locations,
       category \in Categories : search(c, q, location, category)

SearchNext == Search

SpecSearch == SearchInit /\ [][SearchNext]_vars

-----------------------------------------------------------------------------
(* Properties *)

Changed == listings' # listings \/ store' # store

ImagesOf(L) == IF L.images # Empty THEN json_loads(L.images) ELSE <<>>

NoDuplicates(s) == \A i, j \in 1..Len(s) : i # j => s[i] # s[j]

UniqueUsers ==
    \A u, v \in users :
        (u.email = v.email \/ u.username = v.username) => u = v

\* C5: no two stored users share an email or a username, whatever the
\* interleaving of register requests; a register request whose passwords
\* differ answers Mismatch, one whose email is taken answers the email
\* conflict (also when the username is taken too), one whose username alone
\* is taken answers the username conflict, and none of them, nor a request
\* that finds either taken when it inserts, stores a user; a successful one
\* stores exactly one user, with the credentials given; no register request
\* changes a session.
C5_RegisterUnique ==
    /\ []UniqueUsers
    /\ [][response'.op = "register" =>
            LET r == response'
                atCheck == pending[r.client] = Idle
                taken == ByEmail(r.email) # {} \/ ByUsername(r.username) # {}
            IN  /\ session' = session
                /\ users \subseteq users'
                /\ r.password # r.confirm_password =>
                       r.outcome = "Mismatch" /\ users' = users
                /\ taken => r.outcome # "OK" /\ users' = users
                /\ (atCheck /\ r.password = r.confirm_password
                            /\ ByEmail(r.email) # {}) =>
                       r.outcome = "ConflictEmail"
                /\ (atCheck /\ r.password = r.confirm_password
                            /\ ByEmail(r.email) = {}
                            /\ ByUsername(r.username) # {}) =>
                       r.outcome = "ConflictUsername"
                /\ r.outcome # "OK" => users' = users
                /\ r.outcome = "OK" =>
                       \E u \in users' \ users :
                           /\ users' = users \cup {u}
                           /\ u.username = r.username /\ u.email = r.email
                           /\ registered'[u.id] = r.password
         ]_vars

\* a register request lost the race for its email or username: it passed the
\* checks, and the insert was refused
C5_Witness ==
    /\ response.op = "register" /\ response.outcome = "Error"
    /\ Cardinality(users) = 2

RowIn(table, ad_id) == CHOOSE L \in table : L.id = ad_id

Gone(table, ad_id) == \A L \in table : L.id # ad_id

ListingOps == {"rent_out", "edit_ad", "delete_ad"}

\* C1: a step that changes the Listing table or the upload directory is a
\* rent_out, edit_ad or delete_ad request of a client with a session; a row
\* is changed or removed only by a request whose session user is its owner,
\* and a new row is owned by the session user; such a request without a
\* session is redirected to the login page, an edit_ad or delete_ad request
\* of a user who is not the owner is refused, and neither changes the table
\* or the directory.
C1_OwnerGate ==
    [][LET r == response'
           c == r.client
       IN  /\ Changed => r.op \in ListingOps /\ session[c] # NoSession
           /\ \A L \in listings \ listings' :
                  /\ r.op \in {"edit_ad", "delete_ad"}
                  /\ r.ad_id = L.id
                  /\ session[c].user_id = L.user_id
           /\ \A L \in listings' \ listings :
                  /\ L.user_id = session[c].user_id
                  /\ Gone(listings, L.id) => r.op = "rent_out"
           /\ (r.op \in ListingOps /\ session[c] = NoSession) =>
                  r.outcome = "RedirectLogin" /\ ~Changed
           /\ (/\ r.op \in {"edit_ad", "delete_ad"}
               /\ session[c] # NoSession
               /\ \E L \in listings : L.id = r.ad_id
                                        /\ L.user_id # session[c].user_id) =>
                  r.outcome = "Forbidden" /\ ~Changed
      ]_vars

\* a logged-in user who is not the owner has just been refused the deletion
\* of a listing that has images in the directory
C1_Witness ==
    /\ response.op = "delete_ad" /\ response.outcome = "Forbidden"
    /\ \E L \in listings : /\ L.user_id # session[response.client].user_id
                            /\ ImagesOf(L) # <<>>
                            /\ \A i \in 1..Len(ImagesOf(L)) :
                                   Exists(store, ImagesOf(L)[i])

\* C2: a rent_out request of a logged-in user with a required field empty, or
\* with a price that is not a number, changes neither the Listing table nor
\* the upload directory.
C2_InvalidCreateMutatesNothing ==
    [][(/\ response'.op = "rent_out"
        /\ session[response'.client] # NoSession
        /\ \/ \E f \in RequiredFields : ~Truthy(response'.form[f])
           \/ ~float(response'.form.price).ok) =>
            listings' = listings /\ store' = store
      ]_vars

\* C3: after a delete_ad request of the owner, the row is gone and none of
\* the names of its image sequence is in the upload directory; an edit_ad or
\* delete_ad request for the id of a row that is gone answers NotFound.
C3_DeleteRemovesRowAndFiles ==
    [][LET r == response'
           c == r.client
       IN  /\ (/\ r.op = "delete_ad"
               /\ session[c] # NoSession
               /\ \E L \in listings : L.id = r.ad_id
                                        /\ L.user_id = session[c].user_id) =>
                  /\ Gone(listings', r.ad_id)
                  /\ \A i \in 1..Len(ImagesOf(Row(r.ad_id))) :
                         ~Exists(store', ImagesOf(Row(r.ad_id))[i])
           /\ (/\ r.op \in {"edit_ad", "delete_ad"}
               /\ pending[c] = Idle
               /\ session[c] # NoSession
               /\ Gone(listings, r.ad_id)) => r.outcome = "NotFound"
      ]_vars

\* C4: a delete_ad request of the owner during which the removal of an image
\* file raises still removes the row and reports success.
C4_DeleteSurvivesRemoveError ==
    [][(response'.op = "delete_ad" /\ response'.raised) =>
            Gone(listings', response'.ad_id) /\ response'.outcome = "OK"
      ]_vars

\* C8: the price of every stored listing is a number, and not negative.
C8_PriceNonNegative ==
    \A L \in listings : L.price.kind = "num" /\ L.price.val >= 0

\* C9: the names one rent_out or edit_ad request stores its accepted files
\* under are pairwise distinct.
C9_StoredNamesDistinct ==
    response.op \in {"rent_out", "edit_ad"} => NoDuplicates(response.uploaded)

\* C10 as claimed: after a successful edit_ad the image sequence of the row
\* is the sequence stored just before the commit followed by the names of the
\* newly accepted files.
C10_EditAppendsToStored ==
    [][LET r == response'
       IN  (/\ r.op = "edit_ad" /\ r.outcome = "OK"
            /\ ~Gone(listings, r.ad_id)) =>
               /\ ~Gone(listings', r.ad_id)
               /\ ImagesOf(RowIn(listings', r.ad_id)) =
                      ImagesOf(Row(r.ad_id)) \o r.uploaded
      ]_vars

\* C10: after a successful edit_ad that accepted files, the image sequence of
\* the row is the sequence the request loaded followed by the names of the
\* accepted files in upload order; after one that accepted none, it is the
\* sequence stored just before the commit. So an edit drops no name of the
\* stored sequence unless the sequence changed between its load and its
\* commit.
C10_EditAppendsToLoaded ==
    [][LET r == response'
       IN  (/\ r.op = "edit_ad" /\ r.outcome = "OK"
            /\ ~Gone(listings, r.ad_id)) =>
               LET before == ImagesOf(Row(r.ad_id))
                   loaded == ImagesOf(pending[r.client].listing)
                   after == ImagesOf(RowIn(listings', r.ad_id))
               IN  /\ ~Gone(listings', r.ad_id)
                   /\ r.uploaded # <<>> => after = loaded \o r.uploaded
                   /\ r.uploaded = <<>> => after = before
                   /\ loaded = before => after = before \o r.uploaded
      ]_vars

\* an edit has appended the names of its files to a sequence that had some
C10_Witness ==
    /\ response.op = "edit_ad" /\ response.outcome = "OK"
    /\ response.uploaded # <<>>
    /\ ~Gone(listings, response.ad_id)
    /\ Len(ImagesOf(Row(response.ad_id))) > Len(response.uploaded)

SortedByCreationDesc(rows) ==
    \A i, j \in 1..Len(rows) : i < j => rows[i].created_at > rows[j].created_at

Range(rows) == {rows[i] : i \in 1..Len(rows)}

=============================================================================
